---- MODULE Spec2Model ----
(***************************************************************************)
(* A model of gensim's FastText vector store (models/fasttext.py), its     *)
(* legacy bucket-matrix migration (_unpack) and the streaming token survey *)
(* (models/tokensurvey.py).                                                *)
(*                                                                         *)
(* Five specifications, one per component under study:                        *)
(*   SpecSurvey  TokenSurvey: update_with, tenure_token, prune_token       *)
(*   SpecMerge   TokenSurvey.combine_survey over three surveys             *)
(*   SpecUnpack  _unpack / _unpack_copy / _rollback_optimization           *)
(*   SpecStore   FastText.build_vocab / prepare_weights / train and the    *)
(*               FastTextKeyedVectors matrices                             *)
(***************************************************************************)
EXTENDS Integers, Sequences, FiniteSets, TLC

VARIABLES
    survey,      \* the TokenSurvey object (a record of its fields)
    upd,         \* the locals of the running update_with call
    sa, sb, sc,  \* three independently accumulated surveys (merge)
    mres,        \* results of combine_survey, once computed
    um,          \* the migration of one legacy store (_rollback_optimization)
    ft,          \* the FastText model and its FastTextKeyedVectors
    hq           \* one call of ft_ngram_hashes: its arguments and its outcome

vars == <<survey, upd, sa, sb, sc, mres, um, ft, hq>>

(***************************************************************************)
(* Bounds of the model.                                                    *)
(***************************************************************************)
MaxItems == 2        \* items a survey consumes, over all its update_with calls
MaxUpdates == 1      \* update_with calls per survey
MaxDirect == 1       \* direct tenure_token / prune_token calls per survey
MaxShardOps == 3     \* operations on the three surveys before they are merged
MaxPacked == 3       \* rows of a packed legacy bucket matrix
MaxBuckets == 4      \* bucket count of a store
MaxVocab == 2        \* vocabulary entries of a model
MaxOps == 3          \* build_vocab, train and load calls on a model

Tokens == {"a", "b", "c"}

(***************************************************************************)
(* Generic sequence helpers.                                               *)
(***************************************************************************)
Range(s) == {s[i] : i \in 1..Len(s)}

RECURSIVE Reverse(_)
Reverse(s) == IF s = <<>> THEN <<>> ELSE Append(Reverse(Tail(s)), Head(s))

RECURSIVE SumSeq(_)
SumSeq(s) == IF s = <<>> THEN 0 ELSE Head(s) + SumSeq(Tail(s))

Max2(x, y) == IF x >= y THEN x ELSE y

SeqsUpTo(S, n) == UNION {[1..k -> S] : k \in 0..n}

(***************************************************************************)
(* collections.Counter, as raw_tally uses it: an insertion-ordered list of *)
(* <<token, count>> pairs with distinct tokens.                            *)
(***************************************************************************)
TallyKeys(t) == {t[i][1] : i \in 1..Len(t)}

TallyGet(t, k) ==
    IF k \in TallyKeys(t)
    THEN (CHOOSE i \in 1..Len(t) : t[i][1] = k)
    ELSE 0

TallyCount(t, k) == IF k \in TallyKeys(t) THEN t[TallyGet(t, k)][2] ELSE 0

TallyValues(t) == [i \in 1..Len(t) |-> t[i][2]]

\* self[k] = self.get(k, 0) + n : an existing key keeps its place, a new
\* one goes last
TallyAdd(t, k, n) ==
    IF k \in TallyKeys(t)
    THEN [t EXCEPT ![TallyGet(t, k)] = <<k, @[2] + n>>]
    ELSE Append(t, <<k, n>>)

\* Counter.update(iterable of tokens)
RECURSIVE TallyUpdateTokens(_, _)
TallyUpdateTokens(t, tokens) ==
    IF tokens = <<>> THEN t
    ELSE TallyUpdateTokens(TallyAdd(t, Head(tokens), 1), Tail(tokens))

\* Counter.update(another Counter)
RECURSIVE TallyUpdateCounter(_, _)
TallyUpdateCounter(t, other) ==
    IF other = <<>> THEN t
    ELSE TallyUpdateCounter(TallyAdd(t, Head(other)[1], Head(other)[2]), Tail(other))

\* Counter.pop(k) of a present key
TallyPop(t, k) == SelectSeq(t, LAMBDA e : e[1] # k)

\* Counter.most_common(): a stable sort by descending count
RECURSIVE InsertByCount(_, _)
InsertByCount(sorted, e) ==
    IF sorted = <<>> THEN <<e>>
    ELSE IF Head(sorted)[2] >= e[2]
         THEN <<Head(sorted)>> \o InsertByCount(Tail(sorted), e)
         ELSE <<e>> \o sorted

RECURSIVE MostCommonFrom(_, _)
MostCommonFrom(sorted, rest) ==
    IF rest = <<>> THEN sorted
    ELSE MostCommonFrom(InsertByCount(sorted, Head(rest)), Tail(rest))

MostCommon(t) == MostCommonFrom(<<>>, t)

(***************************************************************************)
(* TokenSurvey.  prune_until is a float in the code; here it is the        *)
(* rational num/den, and int(prune_until * prune_at_size) truncates.       *)
(* Tokens are strings here, so max_raw_int stays at -1 and is left out.    *)
(***************************************************************************)
NewSurvey(prune_at_size, prune_until) ==
    [raw_tally      |-> <<>>,
     tenured_tokens |-> {},
     corpus_count   |-> 0,
     total_tokens   |-> 0,
     prune_count    |-> 0,
     prune_floor    |-> 0,
     prune_total    |-> 0,
     prune_at_size  |-> prune_at_size,
     prune_until    |-> prune_until]

\* tenure_token
TenureToken(s, token) ==
    [s EXCEPT !.tenured_tokens = @ \cup {token}]

\* prune_token; raw_tally.pop raises KeyError on an absent token, before
\* anything is written
PruneTokenRaises(s, token) == token \notin TallyKeys(s.raw_tally)

\* prune_token that leaves prune_floor alone
PruneTokenFloorKept(s, token) ==
    LET count == TallyCount(s.raw_tally, token) IN
    [s EXCEPT !.raw_tally   = TallyPop(@, token),
              !.prune_total = @ + count,
              !.prune_count = @ + 1]

PruneToken(s, token) ==
    LET count == TallyCount(s.raw_tally, token) IN
    [s EXCEPT !.raw_tally   = TallyPop(@, token),
              !.prune_total = @ + count,
              !.prune_floor = Max2(@, count),
              !.prune_count = @ + 1]

\* dict.update in place of Counter.update: the other survey's count
\* replaces this survey's count of a shared token
RECURSIVE TallyOverwrite(_, _)
TallyOverwrite(t, other) ==
    IF other = <<>> THEN t
    ELSE TallyOverwrite(TallyAdd(TallyPop(t, Head(other)[1]), Head(other)[1], Head(other)[2]),
                        Tail(other))

CombineSurveyOverwrite(s, other) ==
    LET tally == TallyOverwrite(s.raw_tally, other.raw_tally) IN
    [s EXCEPT !.raw_tally    = tally,
              !.corpus_count = @ + other.corpus_count,
              !.total_tokens = SumSeq(TallyValues(tally)),
              !.prune_count  = @ + other.prune_count,
              !.prune_floor  = Max2(@, other.prune_floor),
              !.prune_total  = @ + other.prune_total]

\* combine_survey
CombineSurvey(s, other) ==
    LET tally == TallyUpdateCounter(s.raw_tally, other.raw_tally) IN
    [s EXCEPT !.raw_tally    = tally,
              !.corpus_count = @ + other.corpus_count,
              !.total_tokens = SumSeq(TallyValues(tally)),
              !.prune_count  = @ + other.prune_count,
              !.prune_floor  = Max2(@, other.prune_floor),
              !.prune_total  = @ + other.prune_total]

\* A trim rule is a caller's function of (token, count); the rules tried
\* here discard every token whose count is below the rule's threshold and
\* leave the rest to keep_vocab_item's default (min_count 0: keep).
TrimRules == {1, 2}

\* trim_rule_callback / apply_trim_rule: over a most_common() snapshot
RECURSIVE ApplyTrimRuleOver(_, _, _)
ApplyTrimRuleOver(s, snapshot, rule) ==
    IF snapshot = <<>> THEN s
    ELSE LET token == Head(snapshot)[1]
             count == Head(snapshot)[2]
         IN  ApplyTrimRuleOver(IF count < rule THEN PruneToken(s, token) ELSE s,
                               Tail(snapshot), rule)

ApplyTrimRule(s, rule) == ApplyTrimRuleOver(s, MostCommon(s.raw_tally), rule)

\* for callback in prune_callbacks: callback(self).  A call's callbacks are
\* a tuple of trim rules (empty: no callbacks).
RECURSIVE RunCallbacks(_, _)
RunCallbacks(s, cbs) ==
    IF cbs = <<>> THEN s
    ELSE RunCallbacks(ApplyTrimRule(s, Head(cbs)), Tail(cbs))

\* int(self.prune_until * self.prune_at_size)
TargetSize(s) == (s.prune_until[1] * s.prune_at_size) \div s.prune_until[2]

\* The low-frequency pruning loop of update_with: for key, count in
\* infrequent_candidates ... else.  `broke` tells whether the loop left by
\* its break (target reached) or ran out of candidates (the else branch).
RECURSIVE InfrequentLoopLate(_, _, _, _)
InfrequentLoopLate(s, cands, target, removed) ==
    IF cands = <<>>
    THEN [s |-> s, broke |-> FALSE, removed |-> removed]
    ELSE IF Len(s.raw_tally) <= target + 1
         THEN [s |-> s, broke |-> TRUE, removed |-> removed]
         ELSE InfrequentLoopLate(PruneToken(s, Head(cands)[1]), Tail(cands), target,
                                 Append(removed, Head(cands)))

RECURSIVE InfrequentLoop(_, _, _, _)
InfrequentLoop(s, cands, target, removed) ==
    IF cands = <<>>
    THEN [s |-> s, broke |-> FALSE, removed |-> removed]
    ELSE IF Len(s.raw_tally) <= target
         THEN [s |-> s, broke |-> TRUE, removed |-> removed]
         ELSE InfrequentLoop(PruneToken(s, Head(cands)[1]), Tail(cands), target,
                             Append(removed, Head(cands)))

\* the pruning loop fed with most_common() as it is, most frequent first
InfrequentPruneFrequentFirst(s) ==
    InfrequentLoop(s, MostCommon(s.raw_tally), TargetSize(s), <<>>)

InfrequentPrune(s) ==
    InfrequentLoop(s, Reverse(MostCommon(s.raw_tally)), TargetSize(s), <<>>)

\* The locals of an update_with call.  status: "idle" (no call running),
\* "scanning" (inside the for loop), "raised" (the call ended by an
\* exception).  The cp_* fields remember the latest pruning checkpoint
\* (cp_size: the table's size when its pruning was over), cb_rounds counts
\* the times the call has run its callbacks, cb_final tells that it ran
\* them after the for loop.  cp_before is before_infrequent_pruning, cp_left
\* the table the checkpoint's pruning left.  dp is
\* the latest direct tenure_token / prune_token call with the survey it
\* found.
NoDirect == [kind |-> "none"]

IdleUpd ==
    [status |-> "idle", prune_callbacks |-> <<>>,
     effective_prune_at_size |-> 0, item_count |-> 0, total_tokens |-> 0,
     calls |-> 0, consumed |-> 0, checkpoints |-> 0, exc |-> "none",
     direct |-> 0, cp_tenured |-> {}, cp_removed |-> <<>>, cp_broke |-> FALSE,
     cp_size |-> 0, cb_rounds |-> 0, cb_final |-> FALSE,
     cp_before |-> 0, cp_left |-> <<>>, dp |-> NoDirect]

\* update_with up to the for loop
EnterUpdate(s, u, cbs) ==
    [u EXCEPT !.status = "scanning",
              !.prune_callbacks = cbs,
              !.effective_prune_at_size = s.prune_at_size,
              !.item_count = 0,
              !.total_tokens = 0,
              !.exc = "none",
              !.cb_rounds = 0,
              !.cb_final = FALSE,
              !.dp = NoDirect,
              !.calls = @ + 1]

\* One pass of the for loop body over `tokens`: the new survey and locals.
\* logging.Logger has no method `severe`: the else branch of the pruning
\* loop raises AttributeError at its first statement, before the ceiling is
\* doubled.
ScanItem(s, u, tokens) ==
    LET s1 == [s EXCEPT !.raw_tally = TallyUpdateTokens(@, tokens)]
        u1 == [u EXCEPT !.item_count = @ + 1,
                        !.total_tokens = @ + Len(tokens),
                        !.consumed = @ + 1]
        reached_size == Len(s1.raw_tally)
    IN  IF reached_size >= u.effective_prune_at_size
        THEN LET s2 == RunCallbacks(s1, u.prune_callbacks)
                 lp == InfrequentPrune(s2)
                 u2 == [u1 EXCEPT !.checkpoints = @ + 1,
                                  !.cb_rounds = IF u.prune_callbacks # <<>> THEN @ + 1 ELSE @,
                                  !.cp_size = Len(lp.s.raw_tally),
                                  !.cp_before = Len(s2.raw_tally),
                                  !.cp_left = lp.s.raw_tally,
                                  !.cp_tenured = s2.tenured_tokens,
                                  !.cp_removed = lp.removed,
                                  !.cp_broke = lp.broke]
             IN  [s |-> lp.s,
                  u |-> IF lp.broke THEN u2
                        ELSE [u2 EXCEPT !.status = "raised", !.exc = "AttributeError"]]
        ELSE [s |-> s1, u |-> u1]

\* update_with after the for loop (the loop cannot end with the ceiling
\* raised: the statement before the doubling raises)
FinishUpdate(s, u) ==
    LET s1 == RunCallbacks(s, u.prune_callbacks) IN
    [s |-> [s1 EXCEPT !.corpus_count = @ + u.item_count,
                      !.total_tokens = @ + u.total_tokens],
     u |-> [u EXCEPT !.status = "idle",
                     !.cb_rounds = IF u.prune_callbacks # <<>> THEN @ + 1 ELSE @,
                     !.cb_final = (u.prune_callbacks # <<>>)]]

(***************************************************************************)
(* The survey under its public operations.                                 *)
(***************************************************************************)
PruneAtSizes == {1, 2}
PruneUntils == {<<1, 2>>, <<1, 1>>}

\* the token lists a stream may yield
Items == SeqsUpTo(Tokens, 2)

\* the prune_callbacks a caller may pass
CallbackTuples == {<<>>} \cup {<<r>> : r \in TrimRules}

surveyVars == <<survey, upd>>

mergeVars == <<sa, sb, sc, mres>>

\* a survey nothing is done with
UnusedSurvey == NewSurvey(1, <<1, 1>>)

\* survey.tenure_token(token), between update_with calls
SvTenure(token) ==
    /\ upd.status # "scanning"
    /\ upd.direct < MaxDirect
    /\ survey' = TenureToken(survey, token)
    /\ upd' = [upd EXCEPT !.direct = @ + 1,
                          !.dp = [kind |-> "tenure", token |-> token, before |-> survey]]
    /\ UNCHANGED <<mergeVars, um, ft, hq>>

\* survey.prune_token(token), between update_with calls
SvPrune(token) ==
    /\ upd.status # "scanning"
    /\ upd.direct < MaxDirect
    /\ IF PruneTokenRaises(survey, token)
       THEN /\ upd' = [upd EXCEPT !.exc = "KeyError", !.direct = @ + 1,
                                  !.dp = [kind |-> "KeyError", token |-> token,
                                          before |-> survey]]
            /\ UNCHANGED survey
       ELSE /\ survey' = PruneToken(survey, token)
            /\ upd' = [upd EXCEPT !.exc = "none", !.direct = @ + 1,
                                  !.dp = [kind |-> "pruned", token |-> token,
                                          before |-> survey]]
    /\ UNCHANGED <<mergeVars, um, ft, hq>>

\* survey.update_with(corpus_iterable, prune_callbacks) is entered
SvBegin(cbs) ==
    /\ upd.status # "scanning"
    /\ upd.calls < MaxUpdates
    /\ upd' = EnterUpdate(survey, upd, cbs)
    /\ UNCHANGED <<survey, mergeVars, um, ft, hq>>

\* the stream yields one more token list
SvItem(tokens) ==
    /\ upd.status = "scanning"
    /\ upd.consumed < MaxItems
    /\ LET r == ScanItem(survey, upd, tokens) IN
        /\ survey' = r.s
        /\ upd' = r.u
    /\ UNCHANGED <<mergeVars, um, ft, hq>>

\* the stream is exhausted
SvEnd ==
    /\ upd.status = "scanning"
    /\ LET r == FinishUpdate(survey, upd) IN
        /\ survey' = r.s
        /\ upd' = r.u
    /\ UNCHANGED <<mergeVars, um, ft, hq>>

NextSurvey ==
    \/ \E token \in Tokens : SvTenure(token)
    \/ \E token \in Tokens : SvPrune(token)
    \/ \E cbs \in CallbackTuples : SvBegin(cbs)
    \/ \E tokens \in Items : SvItem(tokens)
    \/ SvEnd

(***************************************************************************)
(* A whole update_with call over a finite stream.                          *)
(***************************************************************************)
RECURSIVE ScanStream(_, _, _)
ScanStream(s, u, stream) ==
    IF stream = <<>> \/ u.status = "raised" THEN [s |-> s, u |-> u]
    ELSE LET r == ScanItem(s, u, Head(stream)) IN ScanStream(r.s, r.u, Tail(stream))

UpdateWith(s, stream, cbs) ==
    LET r == ScanStream(s, EnterUpdate(s, IdleUpd, cbs), stream) IN
    IF r.u.status = "raised" THEN r.s ELSE FinishUpdate(r.s, r.u).s

(***************************************************************************)
(* Sharded scanning: three surveys of one configuration, each fed its own  *)
(* items, then reduced with combine_survey.                                *)
(***************************************************************************)
NoMerge == [done |-> FALSE, ops |-> 0]

\* shard i surveys one more token list: survey.update_with([tokens])
MgUpdate(i, tokens) ==
    /\ ~mres.done
    /\ mres.ops < MaxShardOps
    /\ mres' = [mres EXCEPT !.ops = @ + 1]
    /\ CASE i = 1 -> sa' = UpdateWith(sa, <<tokens>>, <<>>) /\ UNCHANGED <<sb, sc>>
         [] i = 2 -> sb' = UpdateWith(sb, <<tokens>>, <<>>) /\ UNCHANGED <<sa, sc>>
         [] i = 3 -> sc' = UpdateWith(sc, <<tokens>>, <<>>) /\ UNCHANGED <<sa, sb>>
    /\ UNCHANGED <<surveyVars, um, ft, hq>>

\* the reduce: sa.combine_survey(sb).  The surveys as they were, and the
\* three groupings of the full reduce, are kept for inspection.
MgCombine ==
    /\ ~mres.done
    /\ mres' = [done |-> TRUE, ops |-> mres.ops,
                a |-> sa, b |-> sb, c |-> sc,
                a_bc |-> CombineSurvey(sa, CombineSurvey(sb, sc)),
                ab_c |-> CombineSurvey(CombineSurvey(sa, sb), sc),
                b_ac |-> CombineSurvey(sb, CombineSurvey(sa, sc))]
    /\ sa' = CombineSurvey(sa, sb)
    /\ UNCHANGED <<sb, sc, surveyVars, um, ft, hq>>

NextMerge ==
    \/ \E i \in 1..3, tokens \in Items : MgUpdate(i, tokens)
    \/ MgCombine

(***************************************************************************)
(* Matrices are sequences of rows, a row is a sequence of `columns`        *)
(* numbers; row r of the code (0-based) is element r + 1.  Floats are      *)
(* integers here: the code under study moves, copies and compares rows.    *)
(*                                                                         *)
(* numpy's global generator: after rand.seed(seed) the stream of draws is  *)
(* a function of the seed alone.  rand = [seed, pos], pos the number of    *)
(* draws taken since seeding.                                              *)
(***************************************************************************)
Seeded(seed) == [seed |-> seed, pos |-> 0]

\* the k-th draw (k = 0, 1, ...) of uniform(low, high) after seed(seed)
Draw(seed, k) == 100 + ((seed * 37 + k * 11) % 89)

\* rand.uniform(low, high, (rows, columns)).astype(REAL) and the generator
\* after it
Uniform(rand, rows, columns) ==
    [m    |-> [r \in 1..rows |->
                 [c \in 1..columns |-> Draw(rand.seed, rand.pos + (r - 1) * columns + (c - 1))]],
     rand |-> [rand EXCEPT !.pos = @ + (IF rows > 0 THEN rows * columns ELSE 0)]]

\* _pad_random(m, new_rows, rand); columns is m.shape[1]
PadRandom(m, columns, new_rows, rand) ==
    m \o Uniform(rand, new_rows, columns).m

(***************************************************************************)
(* A dict is an insertion-ordered sequence of <<key, value>> pairs with    *)
(* distinct keys.                                                          *)
(***************************************************************************)
DictKeys(d) == {d[k][1] : k \in 1..Len(d)}

DictValues(d) == {d[k][2] : k \in 1..Len(d)}

\* m[[h, i]] = m[[i, h]]
SwapRows(m, h, i) == [m EXCEPT ![h + 1] = m[i + 1], ![i + 1] = m[h + 1]]

RECURSIVE ApplySwaps(_, _)
ApplySwaps(m, swap) ==
    IF swap = <<>> THEN m
    ELSE ApplySwaps(SwapRows(m, Head(swap)[1], Head(swap)[2]), Tail(swap))

\* the swap dict with its second kind chosen by the packed index
SwapPairsByIndex(hash2index, orig_rows) ==
    SelectSeq(hash2index, LAMBDA p : p[1] < p[2] /\ p[2] < orig_rows)
        \o SelectSeq(hash2index, LAMBDA p : ~(p[1] < p[2] /\ p[2] < orig_rows)
                                              /\ p[2] >= orig_rows)

\* the swap dict of _unpack
SwapPairs(hash2index, orig_rows) ==
    SelectSeq(hash2index, LAMBDA p : p[1] < p[2] /\ p[2] < orig_rows)
        \o SelectSeq(hash2index, LAMBDA p : p[1] >= orig_rows)

\* the assertion with its comparison turned round
UnpackRaisesFlipped(m, num_rows) == Len(m) # num_rows /\ ~(num_rows < Len(m))

\* assert num_rows > orig_rows, reached when the row counts differ
UnpackRaises(m, num_rows) == Len(m) # num_rows /\ ~(num_rows > Len(m))

\* _unpack without its "nothing to do" return
UnpackNoEarlyReturn(m, columns, num_rows, hash2index, seed) ==
    ApplySwaps(PadRandom(m, columns, num_rows - Len(m), Seeded(seed)),
               SwapPairs(hash2index, Len(m)))

\* _unpack(m, num_rows, hash2index, seed) where it does not raise
Unpack(m, columns, num_rows, hash2index, seed) ==
    IF Len(m) = num_rows THEN m
    ELSE ApplySwaps(PadRandom(m, columns, num_rows - Len(m), Seeded(seed)),
                    SwapPairs(hash2index, Len(m)))

\* for src, dst in hash2index.items(): n[src] = m[dst]
RECURSIVE CopyRows(_, _, _)
CopyRows(n, m, hash2index) ==
    IF hash2index = <<>> THEN n
    ELSE CopyRows([n EXCEPT ![Head(hash2index)[1] + 1] = m[Head(hash2index)[2] + 1]],
                  m, Tail(hash2index))

\* _unpack_copy(m, num_rows, hash2index, seed) where it does not raise
UnpackCopy(m, columns, num_rows, hash2index, seed) ==
    IF Len(m) = num_rows THEN m
    ELSE CopyRows(PadRandom(<<>>, columns, num_rows, Seeded(seed)), m, hash2index)

(***************************************************************************)
(* Loading a store saved by an older version: the pickle has been read,    *)
(* _try_upgrade is about to run on its key vectors.                        *)
(***************************************************************************)
LearnedVals == {1, 2}

UnpackSeed == 1

\* every ordering of the pairs of a one-to-one relation
DictsOf(pairs) ==
    {d \in [1..Cardinality(pairs) -> pairs] : \A j, k \in 1..Cardinality(pairs) : d[j] = d[k] => j = k}

\* the hash2index dicts a file with `rows` packed rows and `bucket` buckets
\* may carry: distinct hashes below bucket, distinct packed rows; onto the
\* packed rows when they fit in the buckets
HashMaps(rows, bucket) ==
    LET maps(H) == {f \in [H -> 0..(rows - 1)] :
                      /\ \A g, h \in H : f[g] = f[h] => g = h
                      /\ rows <= bucket => {f[h] : h \in H} = 0..(rows - 1)}
        rels == UNION {{{<<h, f[h]>> : h \in H} : f \in maps(H)} : H \in SUBSET (0..(bucket - 1))}
    IN  UNION {DictsOf(rel) : rel \in rels}

LegacyFile(m, columns, bucket, hash2index, hash_marker) ==
    [stage |-> "loaded",
     vectors_ngrams |-> m, columns |-> columns, bucket |-> bucket,
     has_hash2index |-> TRUE, hash2index |-> hash2index,
     compatible_hash |-> hash_marker, notice |-> FALSE, exc |-> "none",
     file |-> [vectors_ngrams |-> m, hash2index |-> hash2index,
               compatible_hash |-> hash_marker],
     unpacked |-> <<>>, swap |-> <<>>, via |-> "none"]

\* a file nothing is done with
UnusedFile == LegacyFile(<<>>, 1, 0, <<>>, "True")

\* _try_upgrade(wv): _rollback_optimization(kv) when the file carries
\* hash2index, then the hash-mode default with its warning
Upgraded(u) ==
    IF u.has_hash2index /\ UnpackRaises(u.vectors_ngrams, u.bucket)
    THEN [u EXCEPT !.stage = "failed", !.exc = "AssertionError"]
    ELSE [u EXCEPT
            !.stage = "upgraded",
            !.vectors_ngrams =
                IF u.has_hash2index
                THEN Unpack(@, u.columns, u.bucket, u.hash2index, UnpackSeed)
                ELSE @,
            !.has_hash2index = FALSE,
            !.hash2index = <<>>,
            !.compatible_hash = IF @ = "absent" THEN "False" ELSE @,
            !.notice = (u.compatible_hash = "absent"),
            !.swap =
                IF u.has_hash2index /\ Len(u.vectors_ngrams) # u.bucket
                THEN SwapPairs(u.hash2index, Len(u.vectors_ngrams))
                ELSE <<>>,
            !.unpacked =
                IF u.has_hash2index
                THEN Unpack(u.vectors_ngrams, u.columns, u.bucket, u.hash2index, UnpackSeed)
                ELSE u.vectors_ngrams]

\* FastText.load(fname): the pickled model holds the key vectors;
\* _try_upgrade(model.wv)
TryUpgrade ==
    /\ um.stage = "loaded"
    /\ um' = Upgraded([um EXCEPT !.via = "FastText.load"])
    /\ UNCHANGED <<surveyVars, mergeVars, ft, hq>>

\* FastTextKeyedVectors.load(fname): compatible_hash is set when the
\* attribute is missing, then _try_upgrade(model)
KvLoad ==
    /\ um.stage = "loaded"
    /\ um' = Upgraded([um EXCEPT !.via = "FastTextKeyedVectors.load",
                                 !.compatible_hash = IF @ = "absent" THEN "False" ELSE @])
    /\ UNCHANGED <<surveyVars, mergeVars, ft, hq>>

\* _unpack applied once more, with the file's map, to the matrix it returned
UnpackAgain ==
    /\ um.stage = "upgraded"
    /\ ~UnpackRaises(um.vectors_ngrams, um.bucket)
    /\ um' = [um EXCEPT
                !.stage = "again",
                !.vectors_ngrams =
                    Unpack(@, um.columns, um.bucket, um.file.hash2index, UnpackSeed)]
    /\ UNCHANGED <<surveyVars, mergeVars, ft, hq>>

NextUnpack ==
    \/ KvLoad
    \/ TryUpgrade
    \/ UnpackAgain

(***************************************************************************)
(* NgramHasher.  compute_ngrams_bytes, compute_ngrams, ft_hash_bytes and   *)
(* ft_hash_broken are compiled extensions; they follow the design          *)
(* document: bracket the word, take every substring of minN..maxN          *)
(* characters (ascending length, then start position), hash each with      *)
(* 32-bit FNV-1a.  Words are sequences of ASCII byte values, for which     *)
(* bytes and characters, and so the two hash modes, coincide.  A 32-bit    *)
(* value is the pair <<high 16 bits, low 16 bits>>.                        *)
(***************************************************************************)
Words == {<<97>>, <<97, 98>>, <<98, 97, 98>>}     \* "a", "ab", "bab"

Bracket(word) == <<60>> \o word \o <<62>>

RECURSIVE Xor(_, _, _)
Xor(x, y, bits) ==
    IF bits = 0 THEN 0
    ELSE ((x + y) % 2) + 2 * Xor(x \div 2, y \div 2, bits - 1)

FnvPrimeLow == 403        \* 16777619 = 2^24 + 403

FnvOffsetHigh == 33052    \* 2166136261 = 33052 * 2^16 + 40389

FnvOffsetLow == 40389

\* h = (h XOR b); h = (h * 16777619) mod 2^32
FnvStep(h, b) ==
    LET lo  == (h[2] \div 256) * 256 + Xor(h[2] % 256, b, 8)
        mlo == lo * FnvPrimeLow
    IN  <<(h[1] * FnvPrimeLow + (mlo \div 65536) + (lo % 256) * 256) % 65536, mlo % 65536>>

RECURSIVE FnvFrom(_, _)
FnvFrom(h, bytes) ==
    IF bytes = <<>> THEN h ELSE FnvFrom(FnvStep(h, Head(bytes)), Tail(bytes))

FtHash(ngram) == FnvFrom(<<FnvOffsetHigh, FnvOffsetLow>>, ngram)

\* a 32-bit value modulo a bucket count > 0
Mod32(h, n) == ((h[1] % n) * (65536 % n) + h[2]) % n

\* the ngrams of a word, in extraction order
RECURSIVE NgramsOfLen(_, _, _)
NgramsOfLen(w, len, start) ==
    IF start + len - 1 > Len(w) THEN <<>>
    ELSE <<SubSeq(w, start, start + len - 1)>> \o NgramsOfLen(w, len, start + 1)

RECURSIVE NgramsFrom(_, _, _)
NgramsFrom(w, len, maxn) ==
    IF len > maxn \/ len > Len(w) THEN <<>>
    ELSE NgramsOfLen(w, len, 1) \o NgramsFrom(w, len + 1, maxn)

ComputeNgrams(word, minn, maxn) == NgramsFrom(Bracket(word), minn, maxn)

\* ft_ngram_hashes where it does not raise: [h % num_buckets for n in
\* ngrams] divides by zero when num_buckets is 0 and there is an ngram
FtNgramHashesRaises(word, minn, maxn, num_buckets) ==
    num_buckets = 0 /\ ComputeNgrams(word, minn, maxn) # <<>>

\* the hashes of the model's words, computed once
HashesOfWords ==
    [word \in Words |-> [minn \in 1..4 |-> [maxn \in 1..4 |->
        LET ngrams == ComputeNgrams(word, minn, maxn) IN
        [k \in 1..Len(ngrams) |-> FtHash(ngrams[k])]]]]

NgramHashValues(word, minn, maxn) ==
    IF word \in Words /\ minn \in 1..4 /\ maxn \in 1..4
    THEN HashesOfWords[word][minn][maxn]
    ELSE LET ngrams == ComputeNgrams(word, minn, maxn) IN
         [k \in 1..Len(ngrams) |-> FtHash(ngrams[k])]

FtNgramHashes(word, minn, maxn, num_buckets, fb_compatible) ==
    LET hashes == NgramHashValues(word, minn, maxn) IN
    [k \in 1..Len(hashes) |-> Mod32(hashes[k], num_buckets)]

\* _process_fasttext_vocab: index -> bucket list, for every vocabulary word
ProcessFasttextVocab(vocab, min_n, max_n, num_buckets, compatible_hash) ==
    IF num_buckets = 0
    THEN [i \in 1..Len(vocab) |-> <<>>]
    ELSE [i \in 1..Len(vocab) |->
            FtNgramHashes(vocab[i], min_n, max_n, num_buckets, compatible_hash)]

\* the words a caller may hash or look up: the corpus words and the empty
\* word
QueryWords == Words \cup {<<>>}

\* a call ft_ngram_hashes(word, minn, maxn, num_buckets, fb_compatible) not
\* yet made
HashCall(word, minn, maxn, num_buckets, fb_compatible) ==
    [word |-> word, minn |-> minn, maxn |-> maxn, num_buckets |-> num_buckets,
     fb_compatible |-> fb_compatible, done |-> FALSE, exc |-> "none", hashes |-> <<>>]

\* a call nothing is done with
UnusedCall == HashCall(<<>>, 1, 1, 1, TRUE)

\* the call is made: it returns its list, or the modulo raises
FtHashWord ==
    /\ ~hq.done
    /\ hq' = IF FtNgramHashesRaises(hq.word, hq.minn, hq.maxn, hq.num_buckets)
             THEN [hq EXCEPT !.done = TRUE, !.exc = "ZeroDivisionError"]
             ELSE [hq EXCEPT !.done = TRUE,
                             !.hashes = FtNgramHashes(hq.word, hq.minn, hq.maxn,
                                                      hq.num_buckets, hq.fb_compatible)]
    /\ UNCHANGED <<surveyVars, mergeVars, um, ft>>

NextHasher == FtHashWord

(***************************************************************************)
(* FastTextKeyedVectors inside a FastText model.  `kv` holds the fields of *)
(* model.wv that the operations below read and write; vocab is the list    *)
(* of words by index.                                                      *)
(***************************************************************************)
NoBuckets == [set |-> FALSE, of |-> <<>>]

\* vectors_norm is None
NoNorm == [set |-> FALSE, of |-> <<>>]

\* no get_vector call has been made since the store last changed
NoLook == [kind |-> "none"]

\* the latest operation was neither a load nor a training
NoPrev == [kind |-> "none"]

\* np.ones(n)
Ones(n) == [k \in 1..n |-> 1]

\* _pad_ones(m, new_len); asserts len(m) <= new_len
PadOnesRaises(m, new_len) == ~(Len(m) <= new_len)

PadOnes(m, new_len) == [k \in 1..new_len |-> IF k <= Len(m) THEN m[k] ELSE 1]

\* init_ngrams_weights(seed): both matrices are drawn afresh
InitNgramsWeights(kv, seed) ==
    LET rand0 == Seeded(seed)
        vv    == Uniform(rand0, Len(kv.vocab), kv.vector_size)
        vn    == Uniform(vv.rand, kv.bucket, kv.vector_size)
    IN  [kv EXCEPT
            !.buckets_word = [set |-> TRUE,
                              of  |-> ProcessFasttextVocab(kv.vocab, kv.min_n, kv.max_n,
                                                           kv.bucket, kv.compatible_hash)],
            !.vectors_vocab = vv.m,
            !.vectors_ngrams = vn.m]

\* update_ngrams_weights with the rows appended at the front
UpdateNgramsWeightsPrepend(kv, seed, old_vocab_len) ==
    [kv EXCEPT
        !.buckets_word = [set |-> TRUE,
                          of  |-> ProcessFasttextVocab(kv.vocab, kv.min_n, kv.max_n,
                                                       kv.bucket, kv.compatible_hash)],
        !.vectors_vocab =
            Uniform(Seeded(seed), Len(kv.vocab) - old_vocab_len, kv.vector_size).m \o @]

\* update_ngrams_weights that pads both matrices
UpdateNgramsWeightsBoth(kv, seed, old_vocab_len) ==
    [kv EXCEPT
        !.buckets_word = [set |-> TRUE,
                          of  |-> ProcessFasttextVocab(kv.vocab, kv.min_n, kv.max_n,
                                                       kv.bucket, kv.compatible_hash)],
        !.vectors_vocab =
            PadRandom(@, kv.vector_size, Len(kv.vocab) - old_vocab_len, Seeded(seed)),
        !.vectors_ngrams =
            PadRandom(@, kv.vector_size, Len(kv.vocab) - old_vocab_len, Seeded(seed))]

\* update_ngrams_weights(seed, old_vocab_len)
UpdateNgramsWeights(kv, seed, old_vocab_len) ==
    [kv EXCEPT
        !.buckets_word = [set |-> TRUE,
                          of  |-> ProcessFasttextVocab(kv.vocab, kv.min_n, kv.max_n,
                                                       kv.bucket, kv.compatible_hash)],
        !.vectors_vocab =
            PadRandom(@, kv.vector_size, Len(kv.vocab) - old_vocab_len, Seeded(seed))]

\* adjust_vectors: with buckets, every row of vectors becomes
\* (vectors_vocab[i] + the word's bucket rows) / (len(ngram_hashes) + 1).
\* An entry of vectors is the exact fraction <<numerator, denominator>>.
RECURSIVE SumRows(_, _, _)
SumRows(m, idx, c) ==
    IF idx = <<>> THEN 0 ELSE m[Head(idx) + 1][c] + SumRows(m, Tail(idx), c)

\* adjust_vectors dividing by the number of ngrams, as get_vector does
AdjustVectorsMeanOfNgrams(kv) ==
    IF kv.bucket = 0 THEN kv
    ELSE [kv EXCEPT !.vectors =
            [i \in 1..Len(kv.vectors_vocab) |->
                IF i <= Len(kv.vocab)
                THEN LET ngram_hashes == FtNgramHashes(kv.vocab[i], kv.min_n, kv.max_n,
                                                       kv.bucket, kv.compatible_hash)
                     IN  [c \in 1..kv.vector_size |->
                            <<kv.vectors_vocab[i][c] + SumRows(kv.vectors_ngrams, ngram_hashes, c),
                              Len(ngram_hashes)>>]
                ELSE [c \in 1..kv.vector_size |-> <<kv.vectors_vocab[i][c], 1>>]]]

AdjustVectors(kv) ==
    IF kv.bucket = 0 THEN kv
    ELSE [kv EXCEPT !.vectors =
            [i \in 1..Len(kv.vectors_vocab) |->
                IF i <= Len(kv.vocab)
                THEN LET ngram_hashes == FtNgramHashes(kv.vocab[i], kv.min_n, kv.max_n,
                                                       kv.bucket, kv.compatible_hash)
                     IN  [c \in 1..kv.vector_size |->
                            <<kv.vectors_vocab[i][c] + SumRows(kv.vectors_ngrams, ngram_hashes, c),
                              Len(ngram_hashes) + 1>>]
                ELSE [c \in 1..kv.vector_size |-> <<kv.vectors_vocab[i][c], 1>>]]]

\* Word2Vec.prepare_weights(update): the superclass (re)allocates
\* wv.vectors, one row per vocabulary word, with its own random values,
\* and drops the normalized vectors
SuperPrepareWeights(kv, seed, update) ==
    [kv EXCEPT !.vectors =
                  [i \in 1..Len(kv.vocab) |->
                      IF update /\ i <= Len(@) THEN @[i]
                      ELSE [c \in 1..kv.vector_size |-> <<Draw(seed + i, c), 1>>]],
               !.vectors_norm = NoNorm]

\* the L2-normalized form of a row, represented by the row it was computed
\* from
Unit(row) == [unit_of |-> row]

\* KeyedVectors.init_sims(): vectors_norm is computed from vectors unless
\* it is already there
KvInitSims(kv) ==
    IF kv.vectors_norm.set THEN kv
    ELSE [kv EXCEPT !.vectors_norm =
            [set |-> TRUE, of |-> [i \in 1..Len(kv.vectors) |-> Unit(kv.vectors[i])]]]

\* the index of a vocabulary word
IndexOf(kv, word) == CHOOSE i \in 1..Len(kv.vocab) : kv.vocab[i] = word

\* KeyedVectors.get_vector(word, use_norm) of a vocabulary word: the row of
\* vectors, or of vectors_norm after init_sims()
SuperGetVector(kv, word, use_norm) ==
    LET i   == IndexOf(kv, word)
        kv1 == IF use_norm THEN KvInitSims(kv) ELSE kv
        m   == IF use_norm THEN kv1.vectors_norm.of ELSE kv1.vectors
    IN  IF i <= Len(m)
        THEN [kind |-> "vector", vec |-> m[i], kv |-> kv1]
        ELSE [kind |-> "IndexError", vec |-> <<>>, kv |-> kv1]

\* __contains__(word)
Contains(kv, word) == TRUE

\* np.zeros(self.vectors_ngrams.shape[1])
Zeros(columns) == [c \in 1..columns |-> <<0, 1>>]

\* get_vector of a word outside the vocabulary, with buckets: the mean of
\* the word's bucket rows, the origin when the word has no ngram.  A store
\* whose vectors_ngrams is still None has no shape.
SynthVector(kv, word, use_norm) ==
    IF kv.vectors_ngrams = <<>>
    THEN [kind |-> "AttributeError", vec |-> <<>>, kv |-> kv]
    ELSE LET ngram_hashes == FtNgramHashes(word, kv.min_n, kv.max_n, kv.bucket,
                                           kv.compatible_hash)
             word_vec == [c \in 1..kv.vector_size |->
                            <<SumRows(kv.vectors_ngrams, ngram_hashes, c), Len(ngram_hashes)>>]
         IN  IF Len(ngram_hashes) = 0
             THEN [kind |-> "vector", vec |-> Zeros(kv.vector_size), kv |-> kv]
             ELSE [kind |-> "vector",
                   vec |-> IF use_norm THEN Unit(word_vec) ELSE word_vec,
                   kv |-> kv]

\* get_vector that gives the origin when there are no buckets
GetVectorOovZero(kv, word, use_norm) ==
    IF word \in Range(kv.vocab) THEN SuperGetVector(kv, word, use_norm)
    ELSE IF kv.bucket = 0
         THEN [kind |-> "vector", vec |-> Zeros(kv.vector_size), kv |-> kv]
         ELSE SynthVector(kv, word, use_norm)

\* get_vector that refuses a word without ngrams
GetVectorNoNgramsRaises(kv, word, use_norm) ==
    IF word \in Range(kv.vocab) THEN SuperGetVector(kv, word, use_norm)
    ELSE IF kv.bucket = 0 \/ ComputeNgrams(word, kv.min_n, kv.max_n) = <<>>
         THEN [kind |-> "KeyError", vec |-> <<>>, kv |-> kv]
         ELSE SynthVector(kv, word, use_norm)

\* FastTextKeyedVectors.get_vector(word, use_norm): the outcome, the vector
\* and the key vectors after the call
GetVector(kv, word, use_norm) ==
    IF word \in Range(kv.vocab) THEN SuperGetVector(kv, word, use_norm)
    ELSE IF kv.bucket = 0
         THEN [kind |-> "KeyError", vec |-> <<>>, kv |-> kv]
         ELSE SynthVector(kv, word, use_norm)

\* adjust_vectors on key vectors whose vectors_vocab is still None
AdjustVectorsRaises(kv) == kv.bucket > 0 /\ kv.vectors_vocab = <<>>

\* FastText._clear_post_train()
ClearPostTrain(kv) == AdjustVectors([kv EXCEPT !.vectors_norm = NoNorm])

\* init_post_load that checks the number of rows only
KvInitPostLoadRaisesRowsOnly(kv, fb_vectors, fb_columns) ==
    Len(fb_vectors) # Len(kv.vocab) + kv.bucket

\* FastTextKeyedVectors.init_post_load(fb_vectors); two assertions first
KvInitPostLoadRaises(kv, fb_vectors, fb_columns) ==
    \/ Len(fb_vectors) # Len(kv.vocab) + kv.bucket
    \/ fb_columns # kv.vector_size

KvInitPostLoad(kv, fb_vectors) ==
    AdjustVectors([kv EXCEPT
        !.vectors_vocab = SubSeq(fb_vectors, 1, Len(kv.vocab)),
        !.vectors_ngrams = SubSeq(fb_vectors, Len(kv.vocab) + 1, Len(fb_vectors)),
        !.buckets_word = NoBuckets])

\* FastText.init_post_load(hidden_output); two assertions first.
\* len(self.wv.vectors_vocab.shape) is the number of dimensions, 2.
FtInitPostLoadRaises(kv) == ~(Len(kv.vectors) > 0) \/ ~(Len(kv.vocab) > 0)

FtInitPostLoad(kv) ==
    [kv EXCEPT !.vectors_ngrams_lockf = Ones(Len(kv.vectors_ngrams)),
               !.vectors_vocab_lockf = Ones(2)]

\* FastText.prepare_weights(update) raises when a lock-factor array is
\* longer than its grown matrix (the assertion of _pad_ones)
PrepareWeightsRaises(kv0, seed, old_vocab_len, update) ==
    /\ update
    /\ LET k1 == UpdateNgramsWeights(SuperPrepareWeights(kv0, seed, update),
                                     seed, old_vocab_len)
       IN  \/ PadOnesRaises(k1.vectors_vocab_lockf, Len(k1.vectors_vocab))
           \/ PadOnesRaises(k1.vectors_ngrams_lockf, Len(k1.vectors_ngrams))

\* FastText.prepare_weights(update), after the superclass allocations; when
\* it raises, what it had written by then
PrepareWeights(kv0, seed, old_vocab_len, update) ==
    LET kv == SuperPrepareWeights(kv0, seed, update) IN
    IF ~update
    THEN LET k1 == InitNgramsWeights(kv, seed) IN
         [k1 EXCEPT !.vectors_vocab_lockf = Ones(Len(k1.vectors_vocab)),
                    !.vectors_ngrams_lockf = Ones(Len(k1.vectors_ngrams))]
    ELSE LET k1 == UpdateNgramsWeights(kv, seed, old_vocab_len) IN
         IF PadOnesRaises(k1.vectors_vocab_lockf, Len(k1.vectors_vocab))
         THEN k1
         ELSE LET k2 == [k1 EXCEPT !.vectors_vocab_lockf = PadOnes(@, Len(k1.vectors_vocab))]
              IN  IF PadOnesRaises(k2.vectors_ngrams_lockf, Len(k2.vectors_ngrams))
                  THEN k2
                  ELSE [k2 EXCEPT !.vectors_ngrams_lockf = PadOnes(@, Len(k2.vectors_ngrams))]

\* Word2Vec.build_vocab, which FastText.build_vocab calls: the scan sets
\* (update: extends) the vocabulary, then self.prepare_weights(update) runs
SuperBuildVocab(kv, seed, old_vocab_len, words, update) ==
    PrepareWeights([kv EXCEPT !.vocab = IF update THEN @ \o words ELSE words],
                   seed, old_vocab_len, update)

\* FastText.build_vocab(corpus, update): an update of a model without
\* vocabulary raises RuntimeError before anything is written
BuildVocabRaises(kv, update) == update /\ Len(kv.vocab) = 0

\* the superclass call inside build_vocab ends by an exception
SuperBuildVocabRaises(kv, seed, words, update) ==
    PrepareWeightsRaises([kv EXCEPT !.vocab = IF update THEN @ \o words ELSE words],
                         seed, Len(kv.vocab), update)

\* FastText.build_vocab past its first check; when the superclass call
\* raises, what had been written by then
BuildVocab(kv, seed, old_vocab_len, words, update) ==
    IF ~update
    THEN SuperBuildVocab(InitNgramsWeights(kv, seed), seed, old_vocab_len, words, FALSE)
    ELSE IF SuperBuildVocabRaises(kv, seed, words, TRUE)
         THEN SuperBuildVocab(kv, seed, Len(kv.vocab), words, TRUE)
         ELSE UpdateNgramsWeights(SuperBuildVocab(kv, seed, Len(kv.vocab), words, TRUE),
                                  seed, Len(kv.vocab))

(***************************************************************************)
(* The model under its operations.                                         *)
(***************************************************************************)
BucketCounts == {0, MaxBuckets - 2}

ModelSeed == 1

VectorSizes == {1}

\* what the kernel leaves in a row it has trained
TrainedRow(columns) == [c \in 1..columns |-> 1 + (c % 2)]

\* the lists of distinct words, none of them in `have`, of at most n words
NewWordLists(have, n) ==
    {ws \in SeqsUpTo(Words \ Range(have), n) :
        \A j, k \in 1..Len(ws) : ws[j] = ws[k] => j = k}

NewModel(vector_size, bucket, compatible_hash) ==
    [seed |-> ModelSeed, old_vocab_len |-> 0, ops |-> 0,
     exc |-> "none", last |-> "init", before |-> <<>>, before_ngrams |-> <<>>,
     look |-> NoLook, prev |-> NoPrev,
     wv |-> [vector_size |-> vector_size, min_n |-> 4, max_n |-> 4,
             bucket |-> bucket, compatible_hash |-> compatible_hash,
             vocab |-> <<>>, buckets_word |-> NoBuckets, vectors |-> <<>>,
             vectors_norm |-> NoNorm,
             vectors_vocab |-> <<>>, vectors_ngrams |-> <<>>,
             vectors_vocab_lockf |-> <<>>, vectors_ngrams_lockf |-> <<>>]]

\* a model nothing is done with
UnusedModel == NewModel(1, 0, TRUE)

\* model.build_vocab(corpus): a first or a fresh vocabulary
FtBuildVocab(words) ==
    /\ ft.ops < MaxOps
    /\ Len(words) > 0
    /\ ft' = [ft EXCEPT
                !.ops = @ + 1,
                !.exc = "none",
                !.last = "build",
                !.look = NoLook, !.prev = NoPrev,
                !.before = ft.wv.vectors_vocab,
                !.before_ngrams = ft.wv.vectors_ngrams,
                !.wv = BuildVocab(@, ft.seed, ft.old_vocab_len, words, FALSE)]
    /\ UNCHANGED <<surveyVars, mergeVars, um, hq>>

\* model.build_vocab(corpus, update=True): `words` are the corpus words
\* the vocabulary does not have yet
FtUpdateVocab(words) ==
    /\ ft.ops < MaxOps
    /\ IF BuildVocabRaises(ft.wv, TRUE)
       THEN ft' = [ft EXCEPT !.ops = @ + 1, !.exc = "RuntimeError", !.last = "raised",
                             !.look = NoLook, !.prev = NoPrev]
       ELSE IF SuperBuildVocabRaises(ft.wv, ft.seed, words, TRUE)
       THEN ft' = [ft EXCEPT
                !.ops = @ + 1,
                !.exc = "AssertionError",
                !.last = "raised",
                !.look = NoLook, !.prev = NoPrev,
                !.old_vocab_len = Len(ft.wv.vocab),
                !.wv = BuildVocab(@, ft.seed, ft.old_vocab_len, words, TRUE)]
       ELSE ft' = [ft EXCEPT
                !.ops = @ + 1,
                !.exc = "none",
                !.last = "update",
                !.look = NoLook, !.prev = NoPrev,
                !.old_vocab_len = Len(ft.wv.vocab),
                !.before = ft.wv.vectors_vocab,
                !.before_ngrams = ft.wv.vectors_ngrams,
                !.wv = BuildVocab(@, ft.seed, ft.old_vocab_len, words, TRUE)]
    /\ UNCHANGED <<surveyVars, mergeVars, um, hq>>

\* model.train(corpus): the training kernel rewrites rows of both matrices
\* in place (here: at most one row of each; row 0: none), the superclass
\* ends by self._clear_post_train(), then adjust_vectors runs once more.
\* A model without vocabulary is refused by the superclass.
FtTrain(vrow, nrow) ==
    /\ ft.ops < MaxOps
    /\ Len(ft.wv.vocab) > 0
    /\ LET kv0 == IF ft.wv.buckets_word.set THEN ft.wv
                  ELSE InitNgramsWeights(ft.wv, ft.seed)
           kv1 == [kv0 EXCEPT
                     !.vectors_vocab =
                         [r \in 1..Len(@) |-> IF r = vrow THEN TrainedRow(kv0.vector_size) ELSE @[r]],
                     !.vectors_ngrams =
                         [r \in 1..Len(@) |-> IF r = nrow THEN TrainedRow(kv0.vector_size) ELSE @[r]]]
       IN  /\ vrow \in 0..Len(kv0.vectors_vocab)
           /\ nrow \in 0..Len(kv0.vectors_ngrams)
           /\ ft' = [ft EXCEPT
                       !.ops = @ + 1,
                       !.exc = "none",
                       !.last = "train",
                       !.look = NoLook,
                       !.prev = [kind |-> "train", wv |-> ft.wv,
                                 kernel_vocab |-> kv0.vectors_vocab,
                                 kernel_ngrams |-> kv0.vectors_ngrams],
                       !.old_vocab_len =
                           IF ft.wv.buckets_word.set THEN @ ELSE Len(ft.wv.vocab),
                       !.before = ft.wv.vectors_vocab,
                       !.before_ngrams = ft.wv.vectors_ngrams,
                       !.wv = AdjustVectors(ClearPostTrain(kv1))]
    /\ UNCHANGED <<surveyVars, mergeVars, um, hq>>

\* the rows of a native model file: learned values
FileMatrix(rows, columns) ==
    [r \in 1..rows |-> [c \in 1..columns |-> 1 + (r % 2)]]

\* load_facebook_model(path): a new model takes the place of the old one;
\* when the load raises there is no new model and the old one stays.
\* The file declares its words, its bucket count, its vector size (the new
\* model takes it) and its matrix, which has `excess` rows more than words
\* and buckets together.
FtLoadFacebook(words, bucket, excess, columns) ==
    /\ ft.ops < MaxOps
    /\ Len(words) + bucket + excess >= 0
    /\ LET fb_vectors == FileMatrix(Len(words) + bucket + excess, columns)
           m0 == NewModel(ft.wv.vector_size, bucket, TRUE)
           kv0 == [m0.wv EXCEPT !.vocab = words]
           kv1 == KvInitPostLoad(kv0, fb_vectors)
           counted == [m0 EXCEPT !.ops = ft.ops + 1,
                                 !.before = kv0.vectors_vocab,
                                 !.before_ngrams = kv0.vectors_ngrams]
       IN  IF KvInitPostLoadRaises(kv0, fb_vectors, columns) \/ FtInitPostLoadRaises(kv1)
           THEN ft' = [ft EXCEPT !.ops = @ + 1, !.exc = "AssertionError",
                                 !.last = "load_raised", !.look = NoLook, !.prev = NoPrev]
           ELSE ft' = [counted EXCEPT
                        !.wv = FtInitPostLoad(kv1),
                        !.last = "load",
                        !.prev = [kind |-> "load", wv |-> kv0,
                                  rows |-> Len(fb_vectors), columns |-> columns]]
    /\ UNCHANGED <<surveyVars, mergeVars, um, hq>>

\* model.wv.init_post_load(fb_vectors) on the store as it is: the matrix
\* has `excess` rows more than the store has words and buckets
FtLoadForeign(excess, columns) ==
    /\ ft.ops < MaxOps
    /\ Len(ft.wv.vocab) + ft.wv.bucket + excess >= 0
    /\ LET fb_vectors == FileMatrix(Len(ft.wv.vocab) + ft.wv.bucket + excess, columns)
           given == [kind |-> "foreign", wv |-> ft.wv,
                     rows |-> Len(fb_vectors), columns |-> columns]
       IN  IF KvInitPostLoadRaises(ft.wv, fb_vectors, columns)
           THEN ft' = [ft EXCEPT !.ops = @ + 1, !.exc = "AssertionError",
                                 !.last = "foreign_raised", !.look = NoLook,
                                 !.prev = given]
           ELSE ft' = [ft EXCEPT !.ops = @ + 1, !.exc = "none",
                                 !.last = "foreign", !.look = NoLook,
                                 !.prev = given,
                                 !.before = ft.wv.vectors_vocab,
                                 !.before_ngrams = ft.wv.vectors_ngrams,
                                 !.wv = KvInitPostLoad(@, fb_vectors)]
    /\ UNCHANGED <<surveyVars, mergeVars, um, hq>>

\* `word in model.wv` and model.wv.get_vector(word, use_norm)
FtGetVector(word, use_norm) ==
    /\ ft.ops < MaxOps
    /\ LET r == GetVector(ft.wv, word, use_norm) IN
        ft' = [ft EXCEPT
                !.ops = @ + 1,
                !.exc = IF r.kind = "vector" THEN "none" ELSE r.kind,
                !.last = "lookup",
                !.prev = NoPrev,
                !.look = [kind |-> r.kind, word |-> word, use_norm |-> use_norm,
                          contains |-> Contains(ft.wv, word), vec |-> r.vec,
                          wv_before |-> ft.wv],
                !.wv = r.kv]
    /\ UNCHANGED <<surveyVars, mergeVars, um, hq>>

\* model.wv.adjust_vectors(), called on its own
FtAdjustVectors ==
    /\ ft.ops < MaxOps
    /\ IF AdjustVectorsRaises(ft.wv)
       THEN ft' = [ft EXCEPT !.ops = @ + 1, !.exc = "TypeError", !.last = "raised",
                             !.look = NoLook, !.prev = NoPrev]
       ELSE ft' = [ft EXCEPT
                !.ops = @ + 1,
                !.exc = "none",
                !.last = "adjust",
                !.look = NoLook, !.prev = NoPrev,
                !.before = ft.wv.vectors_vocab,
                !.before_ngrams = ft.wv.vectors_ngrams,
                !.wv = AdjustVectors(@)]
    /\ UNCHANGED <<surveyVars, mergeVars, um, hq>>

NextStore ==
    \/ \E excess \in {-1, 0, 1}, columns \in {1, 2} : FtLoadForeign(excess, columns)
    \/ \E word \in QueryWords, use_norm \in BOOLEAN : FtGetVector(word, use_norm)
    \/ FtAdjustVectors
    \/ \E words \in NewWordLists(<<>>, MaxVocab - 1) : FtBuildVocab(words)
    \/ \E words \in NewWordLists(ft.wv.vocab, MaxVocab - Len(ft.wv.vocab)) : FtUpdateVocab(words)
    \/ \E vrow \in 0..(2 * MaxVocab), nrow \in 0..MaxBuckets : FtTrain(vrow, nrow)
    \/ \E words \in NewWordLists(<<>>, MaxVocab - 1), bucket \in BucketCounts,
          excess \in {-1, 0, 1}, columns \in VectorSizes :
          FtLoadFacebook(words, bucket, excess, columns)

(***************************************************************************)
(* Specifications: one component moves, the others stay as constructed.    *)
(***************************************************************************)
InitSurvey ==
    /\ survey \in {NewSurvey(n, r) : n \in PruneAtSizes, r \in PruneUntils}
    /\ upd = IdleUpd
    /\ sa = UnusedSurvey /\ sb = UnusedSurvey /\ sc = UnusedSurvey /\ mres = NoMerge
    /\ um = UnusedFile
    /\ ft = UnusedModel
    /\ hq = UnusedCall

SpecSurvey == InitSurvey /\ [][NextSurvey]_vars

\* three surveys of one configuration
InitMerge ==
    /\ \E n \in PruneAtSizes, r \in PruneUntils :
        /\ sa = NewSurvey(n, r)
        /\ sb = NewSurvey(n, r)
        /\ sc = NewSurvey(n, r)
    /\ mres = NoMerge
    /\ survey = UnusedSurvey /\ upd = IdleUpd
    /\ um = UnusedFile
    /\ ft = UnusedModel
    /\ hq = UnusedCall

SpecMerge == InitMerge /\ [][NextMerge]_vars

InitUnpack ==
    /\ \E rows \in 0..MaxPacked, bucket \in 0..MaxBuckets :
         \E m \in [1..rows -> [1..1 -> LearnedVals]], h2i \in HashMaps(rows, bucket),
            marker \in {"absent", "True"} :
           um = LegacyFile(m, 1, bucket, h2i, marker)
    /\ survey = UnusedSurvey /\ upd = IdleUpd
    /\ sa = UnusedSurvey /\ sb = UnusedSurvey /\ sc = UnusedSurvey /\ mres = NoMerge
    /\ ft = UnusedModel
    /\ hq = UnusedCall

SpecUnpack == InitUnpack /\ [][NextUnpack]_vars

InitStore ==
    /\ \E vector_size \in VectorSizes, bucket \in BucketCounts :
        ft = NewModel(vector_size, bucket, TRUE)
    /\ survey = UnusedSurvey /\ upd = IdleUpd
    /\ sa = UnusedSurvey /\ sb = UnusedSurvey /\ sc = UnusedSurvey /\ mres = NoMerge
    /\ um = UnusedFile
    /\ hq = UnusedCall

SpecStore == InitStore /\ [][NextStore]_vars

InitHasher ==
    /\ \E word \in QueryWords, minn \in 1..3, maxn \in 1..3, num_buckets \in 0..MaxBuckets,
          fb_compatible \in BOOLEAN :
         /\ minn <= maxn
         /\ hq = HashCall(word, minn, maxn, num_buckets, fb_compatible)
    /\ survey = UnusedSurvey /\ upd = IdleUpd
    /\ sa = UnusedSurvey /\ sb = UnusedSurvey /\ sc = UnusedSurvey /\ mres = NoMerge
    /\ um = UnusedFile
    /\ ft = UnusedModel

SpecHasher == InitHasher /\ [][NextHasher]_vars

(***************************************************************************)
(* Properties.                                                             *)
(***************************************************************************)

\* C1: the low-frequency pruning step of a checkpoint removes no token that
\* was tenured when the checkpoint was reached.
C1_TenuredNeverPruned ==
    \A k \in 1..Len(upd.cp_removed) : upd.cp_removed[k][1] \notin upd.cp_tenured

\* C2: after a completed build_vocab (first or update) and after a load of
\* a native model, vectors_vocab has exactly one row per vocabulary word.
C2_OneRowPerWord ==
    ft.last \in {"build", "update", "load"} =>
        Len(ft.wv.vectors_vocab) = Len(ft.wv.vocab)

\* an online update added words to a model whose matrices were trained
GrewTrained ==
    /\ ft.last = "update"
    /\ Len(ft.wv.vocab) > ft.old_vocab_len
    /\ ft.wv.bucket > 0
    /\ \E r \in 1..Len(ft.before) : ft.before[r] = TrainedRow(ft.wv.vector_size)
    /\ \E r \in 1..Len(ft.before_ngrams) :
          ft.before_ngrams[r] = TrainedRow(ft.wv.vector_size)

\* C3: growing the vocabulary leaves vectors_ngrams with one row per bucket
\* and with the content it had; after a first build it has one row per
\* bucket.
C3_BucketMatrixConserved ==
    /\ ft.last \in {"build", "update"} => Len(ft.wv.vectors_ngrams) = ft.wv.bucket
    /\ ft.last = "update" => ft.wv.vectors_ngrams = ft.before_ngrams

\* C3 witness: see GrewTrained; the bucket matrix still has its trained row.
C3_Witness ==
    /\ GrewTrained
    /\ Len(ft.wv.vectors_ngrams) = ft.wv.bucket

\* C4: growing the vocabulary leaves every row vectors_vocab had at its
\* index and with its content; rows are only appended.
C4_AppendOnlyGrowth ==
    ft.last = "update" =>
        /\ Len(ft.wv.vectors_vocab) >= Len(ft.before)
        /\ \A r \in 1..Len(ft.before) : ft.wv.vectors_vocab[r] = ft.before[r]

\* C4 witness: see GrewTrained; rows were appended after the old ones.
C4_Witness ==
    /\ GrewTrained
    /\ Len(ft.wv.vectors_vocab) > Len(ft.before)

\* C11: after any sequence of update_with and prune_token calls on a survey
\* that started empty, prune_total plus the counts kept in raw_tally equals
\* total_tokens, the number of token occurrences the survey has processed.
C11_OccurrencesConserved ==
    upd.status # "scanning" =>
        survey.prune_total + SumSeq(TallyValues(survey.raw_tally)) = survey.total_tokens

C13_CallbacksRunAtEnd ==
    (upd.calls > 0 /\ upd.status # "scanning" /\ upd.prune_callbacks # <<>>) =>
        /\ upd.cb_rounds >= 1
        /\ upd.cb_final

\* C14: when the pruning loop of a checkpoint ends in its overload branch
\* (no break), update_with does not fail and goes on with its ceiling
\* doubled.
C14_OverloadDoublesCeiling ==
    (upd.checkpoints > 0 /\ ~upd.cp_broke) =>
        /\ upd.status # "raised"
        /\ upd.effective_prune_at_size = 2 * survey.prune_at_size

\* C18: ft_ngram_hashes called with num_buckets 0 returns the empty list
\* and raises nothing, whatever the word, minn, maxn and hash mode.
C18_NoBucketsNoHashes ==
    (hq.done /\ hq.num_buckets = 0) =>
        /\ hq.exc = "none"
        /\ hq.hashes = <<>>

\* the operations that end by adjust_vectors(): train, the native load,
\* init_post_load and the call itself
Composed == ft.last \in {"train", "load", "foreign", "adjust"}

\* how many times bucket b occurs in a word's bucket list
Occurrences(hashes, b) == Cardinality({k \in 1..Len(hashes) : hashes[k] = b})

\* the sum over the buckets of a word, each counted as often as it occurs
BucketSum(kv, hashes, c) ==
    SumSeq([b \in 1..kv.bucket |-> Occurrences(hashes, b - 1) * kv.vectors_ngrams[b][c]])

\* C21: with B > 0, right after adjust_vectors() row i of vectors is
\* (vectors_vocab[i] + the rows of vectors_ngrams of the word's ngram
\* buckets, a repeated bucket counted each time) / (1 + the number of the
\* word's ngrams), for every word i; a word without ngrams has its
\* vectors_vocab row
C21_CompositeIsMeanOfWordAndBuckets ==
    (Composed /\ ft.wv.bucket > 0) =>
        /\ Len(ft.wv.vectors) >= Len(ft.wv.vocab)
        /\ \A i \in 1..Len(ft.wv.vocab), c \in 1..ft.wv.vector_size :
              LET hashes == FtNgramHashes(ft.wv.vocab[i], ft.wv.min_n, ft.wv.max_n,
                                          ft.wv.bucket, ft.wv.compatible_hash)
              IN  /\ ft.wv.vectors[i][c] =
                        <<ft.wv.vectors_vocab[i][c] + BucketSum(ft.wv, hashes, c),
                          1 + Len(hashes)>>
                  /\ hashes = <<>> => ft.wv.vectors[i][c] = <<ft.wv.vectors_vocab[i][c], 1>>

\* a store holding a word without ngrams and a word with a repeated bucket
\* has been trained
C21_Witness ==
    /\ ft.last = "train"
    /\ ft.wv.bucket > 0
    /\ \E i \in 1..Len(ft.wv.vocab) :
          FtNgramHashes(ft.wv.vocab[i], ft.wv.min_n, ft.wv.max_n,
                        ft.wv.bucket, ft.wv.compatible_hash) = <<>>
    /\ \E i \in 1..Len(ft.wv.vocab) :
          LET hashes == FtNgramHashes(ft.wv.vocab[i], ft.wv.min_n, ft.wv.max_n,
                                      ft.wv.bucket, ft.wv.compatible_hash)
          IN  \E b \in 0..(ft.wv.bucket - 1) : Occurrences(hashes, b) > 1

\* the matrix handed to init_post_load does not fit the store
Misfit ==
    \/ ft.prev.rows # Len(ft.prev.wv.vocab) + ft.prev.wv.bucket
    \/ ft.prev.columns # ft.prev.wv.vector_size

\* C22: init_post_load with a matrix whose row count is not vocabulary
\* size + bucket count, or whose column count is not the vector size,
\* fails and leaves vectors_vocab, vectors_ngrams, buckets_word and vectors
\* (the whole store) as they were
C22_MisfitLoadFailsFast ==
    (ft.last \in {"foreign", "foreign_raised"} /\ Misfit) =>
        /\ ft.last = "foreign_raised"
        /\ ft.exc = "AssertionError"
        /\ ft.wv = ft.prev.wv

\* a built store with its bucket lists cached refused a matrix of the right
\* height and the wrong width
C22_Witness ==
    /\ ft.last = "foreign_raised"
    /\ ft.prev.rows = Len(ft.prev.wv.vocab) + ft.prev.wv.bucket
    /\ ft.prev.columns # ft.prev.wv.vector_size
    /\ ft.wv.vectors_vocab # <<>>
    /\ ft.wv.vectors_ngrams # <<>>
    /\ ft.wv.buckets_word.set

\* C27: after a successful init_post_load, vectors_vocab is the first
\* vocabulary-size rows of the matrix, vectors_ngrams the remaining rows in
\* their order, buckets_word is None and vectors has been recomputed from
\* the two
C27_LoadSplitsAndRecomposes ==
    ft.last \in {"foreign", "load"} =>
        LET fb_vectors == FileMatrix(ft.prev.rows, ft.prev.columns) IN
        /\ ft.wv.vectors_vocab \o ft.wv.vectors_ngrams = fb_vectors
        /\ Len(ft.wv.vectors_vocab) = Len(ft.wv.vocab)
        /\ Len(ft.wv.vectors_ngrams) = ft.wv.bucket
        /\ ~ft.wv.buckets_word.set
        /\ ft.wv.vectors =
              [i \in 1..Len(ft.wv.vocab) |->
                 LET hashes == IF ft.wv.bucket = 0 THEN <<>>
                               ELSE FtNgramHashes(ft.wv.vocab[i], ft.wv.min_n, ft.wv.max_n,
                                                  ft.wv.bucket, ft.wv.compatible_hash)
                 IN  [c \in 1..ft.wv.vector_size |->
                        <<ft.wv.vectors_vocab[i][c] + BucketSum(ft.wv, hashes, c),
                          1 + Len(hashes)>>]]

\* C28: when train finds buckets_word None, the rebuilding of the bucket
\* lists hands the training kernel vectors_vocab and vectors_ngrams as they
\* were
C28_CacheRebuildKeepsVectors ==
    (ft.last = "train" /\ ~ft.prev.wv.buckets_word.set) =>
        /\ ft.prev.kernel_vocab = ft.prev.wv.vectors_vocab
        /\ ft.prev.kernel_ngrams = ft.prev.wv.vectors_ngrams

\* C29: after build_vocab, first or update, and after the load of a native
\* model, vectors_vocab_lockf has one entry per row of vectors_vocab and
\* vectors_ngrams_lockf one per row of vectors_ngrams
C29_OneLockFactorPerRow ==
    ft.last \in {"build", "update", "load"} =>
        /\ Len(ft.wv.vectors_vocab_lockf) = Len(ft.wv.vectors_vocab)
        /\ Len(ft.wv.vectors_ngrams_lockf) = Len(ft.wv.vectors_ngrams)

\* C24: prune_token of a token in the table removes it (and nothing else),
\* adds its count to prune_total, raises prune_floor to at least that count
\* and adds one to prune_count; of a token not in the table it fails with
\* KeyError and leaves the table and the three counters as they were
C24_PruneTokenContract ==
    upd.dp.kind \in {"pruned", "KeyError"} =>
        LET b == upd.dp.before
            token == upd.dp.token
            count == TallyCount(b.raw_tally, token)
        IN  IF token \in TallyKeys(b.raw_tally)
            THEN /\ upd.dp.kind = "pruned"
                 /\ survey.raw_tally = TallyPop(b.raw_tally, token)
                 /\ token \notin TallyKeys(survey.raw_tally)
                 /\ survey.prune_total = b.prune_total + count
                 /\ survey.prune_floor >= count
                 /\ survey.prune_floor >= b.prune_floor
                 /\ survey.prune_count = b.prune_count + 1
            ELSE /\ upd.dp.kind = "KeyError"
                 /\ survey = b

\* a token was pruned directly from a table that held others too, after an
\* earlier prune with a smaller count
C24_Witness ==
    /\ upd.dp.kind = "pruned"
    /\ Len(upd.dp.before.raw_tally) > 1
    /\ TallyCount(upd.dp.before.raw_tally, upd.dp.token) > upd.dp.before.prune_floor

\* C26: the low-frequency pruning step removes tokens in ascending order of
\* count and only until the target size is reached: no removed token had a
\* higher count than a token left in the table (tenured or not), and no
\* more tokens were removed than the excess over the target
C26_LowestCountsPrunedFirst ==
    upd.checkpoints > 0 =>
        /\ \A i, j \in 1..Len(upd.cp_removed) :
                i < j => upd.cp_removed[i][2] <= upd.cp_removed[j][2]
        /\ \A i \in 1..Len(upd.cp_removed), k \in 1..Len(upd.cp_left) :
                upd.cp_removed[i][2] <= upd.cp_left[k][2]
        /\ Len(upd.cp_removed) <= Max2(0, upd.cp_before - TargetSize(survey))
        /\ Len(upd.cp_removed) = upd.cp_before - upd.cp_size

\* a checkpoint removed a token and left a more frequent one
C26_Witness ==
    /\ upd.checkpoints > 0
    /\ upd.cp_broke
    /\ upd.cp_removed # <<>>
    /\ \E k \in 1..Len(upd.cp_left) :
            upd.cp_left[k][2] > upd.cp_removed[Len(upd.cp_removed)][2]

\* C30: a pruning checkpoint that ends with the table at or below the
\* target size, the empty table included, does not take the overload
\* branch and leaves the effective ceiling as it was
C30_OverloadOnlyAboveTarget ==
    (upd.checkpoints > 0 /\ upd.cp_size <= TargetSize(survey)) =>
        /\ upd.cp_broke
        /\ upd.status # "raised"
        /\ upd.effective_prune_at_size = survey.prune_at_size

\* a matrix of whole numbers, written with the composite matrix's entries
Exact(m) == [i \in 1..Len(m) |-> [c \in 1..Len(m[i]) |-> <<m[i][c], 1>>]]

\* C15: whenever `word in store` answers True, get_vector of that word
\* returns a vector and does not fail, whatever the word and the
\* configuration, B = 0 included
C15_ContainedHasVector ==
    (ft.look.kind # "none" /\ ft.look.contains) => ft.look.kind = "vector"

\* C16: with B = 0 the lookup of a word outside the vocabulary fails with
\* KeyError and leaves the store as it was, while the lookup of a
\* vocabulary word still returns its row
C16_NoBucketsUnknownWordFails ==
    (ft.look.kind # "none" /\ ft.look.wv_before.bucket = 0) =>
        IF ft.look.word \in Range(ft.look.wv_before.vocab)
        THEN /\ ft.look.kind = "vector"
             /\ LET row == ft.look.wv_before.vectors[IndexOf(ft.look.wv_before, ft.look.word)]
                IN  ft.look.vec = IF ft.look.use_norm THEN Unit(row) ELSE row
        ELSE /\ ft.look.kind = "KeyError"
             /\ ft.wv = ft.look.wv_before

\* a built store without buckets was asked for a word it does not hold
C16_Witness ==
    /\ ft.look.kind = "KeyError"
    /\ ft.look.wv_before.bucket = 0
    /\ ft.look.wv_before.vocab # <<>>
    /\ ft.look.word # <<>>
    /\ ft.look.word \notin Range(ft.look.wv_before.vocab)

C19_AdjustDropsNormalized ==
    Composed => ~ft.wv.vectors_norm.set

\* C20: with B = 0, after adjust_vectors() the composite matrix equals the
\* vocabulary matrix row for row, also after the vocabulary matrix was
\* rewritten
C20_NoBucketsCompositeIsVocab ==
    (Composed /\ ft.wv.bucket = 0) =>
        ft.wv.vectors = Exact(ft.wv.vectors_vocab)

\* the count-bearing fields of a survey; the table's order is not one
CountFields(s) ==
    [counts       |-> Range(s.raw_tally),
     corpus_count |-> s.corpus_count,
     prune_count  |-> s.prune_count,
     prune_floor  |-> s.prune_floor,
     prune_total  |-> s.prune_total]

\* C9: the three groupings merge(a, merge(b, c)), merge(merge(a, b), c) and
\* merge(b, merge(a, c)) give the same token counts, item count,
\* pruned-token count, highest pruned count and total discarded count.
C9_MergeAssociativeCommutative ==
    mres.done =>
        /\ CountFields(mres.a_bc) = CountFields(mres.ab_c)
        /\ CountFields(mres.ab_c) = CountFields(mres.b_ac)

\* C9 witness: three non-empty surveys are merged, two of them share a token
\* and one of them has pruned.
C9_Witness ==
    /\ mres.done
    /\ mres.a.raw_tally # <<>> /\ mres.b.raw_tally # <<>> /\ mres.c.raw_tally # <<>>
    /\ TallyKeys(mres.a.raw_tally) \cap TallyKeys(mres.b.raw_tally) # {}
    /\ mres.a.prune_count > 0

\* C10: after a.combine_survey(b) every aggregate counter of a is the sum
\* of the two surveys' values before the call (the highest pruned count:
\* their maximum).
C10_MergeSumsCounters ==
    mres.done =>
        /\ sa.corpus_count = mres.a.corpus_count + mres.b.corpus_count
        /\ sa.total_tokens = mres.a.total_tokens + mres.b.total_tokens
        /\ sa.prune_count = mres.a.prune_count + mres.b.prune_count
        /\ sa.prune_total = mres.a.prune_total + mres.b.prune_total
        /\ sa.prune_floor = Max2(mres.a.prune_floor, mres.b.prune_floor)

\* the file's packed matrix has fewer rows than buckets and was unpacked
Unpacked == um.stage = "upgraded" /\ Len(um.file.vectors_ngrams) < um.bucket

\* C23: whichever way a saved store without the compatible_hash attribute
\* is loaded, it ends with compatible_hash False and the warning was
\* logged
C23_LegacyDefaultIsAnnounced ==
    (um.stage \in {"upgraded", "again"} /\ um.file.compatible_hash = "absent") =>
        /\ um.compatible_hash = "False"
        /\ um.notice

\* the pairs (h, i) of the file's map that rearrange rows inside the packed
\* matrix
InnerPairs ==
    {p \in Range(um.file.hash2index) :
        p[1] < p[2] /\ p[2] < Len(um.file.vectors_ngrams)}

\* C25 as stated: the swaps of _unpack are the pairs (h, i) with
\* h < i < orig_rows together with the pairs whose packed index i is at
\* least orig_rows, pairs with h = i are skipped and each selected pair
\* is swapped once
C25_SwapsByPackedIndex ==
    Unpacked =>
        /\ Range(um.swap) = InnerPairs \cup
              {p \in Range(um.file.hash2index) : p[2] >= Len(um.file.vectors_ngrams)}
        /\ \A k \in 1..Len(um.swap) : um.swap[k][1] # um.swap[k][2]
        /\ Cardinality(Range(um.swap)) = Len(um.swap)

\* C25 amended: the swaps of _unpack are the pairs (h, i) with
\* h < i < orig_rows together with the pairs whose hash h is at least
\* orig_rows; a pair with h = i below orig_rows is skipped and each
\* selected pair is swapped once
C25_SwapsByHash ==
    Unpacked =>
        /\ Range(um.swap) = InnerPairs \cup
              {p \in Range(um.file.hash2index) : p[1] >= Len(um.file.vectors_ngrams)}
        /\ \A k \in 1..Len(um.swap) : um.swap[k][1] # um.swap[k][2]
        /\ Cardinality(Range(um.swap)) = Len(um.swap)

\* a map with a pair of each kind and a pair that is left out was unpacked
C25_Witness ==
    /\ Unpacked
    /\ \E p \in Range(um.swap) : p[1] < p[2]
    /\ \E p \in Range(um.swap) : p[1] >= Len(um.file.vectors_ngrams)
    /\ \E p \in Range(um.file.hash2index) : p \notin Range(um.swap)

\* C5: after _unpack, row h holds what the file stored at packed row i, for
\* every pair (h, i) of hash2index, and agrees there with _unpack_copy.
C5_UnpackPlacesRows ==
    Unpacked =>
        \A k \in 1..Len(um.file.hash2index) :
            LET h == um.file.hash2index[k][1]
                i == um.file.hash2index[k][2]
            IN  /\ um.vectors_ngrams[h + 1] = um.file.vectors_ngrams[i + 1]
                /\ um.vectors_ngrams[h + 1] =
                     UnpackCopy(um.file.vectors_ngrams, um.columns, um.bucket,
                                um.file.hash2index, UnpackSeed)[h + 1]

\* C6: _unpack returns the same matrix for every iteration order of the
\* same hash2index content.
C6_UnpackOrderIndependent ==
    Unpacked =>
        \A d \in DictsOf(Range(um.file.hash2index)) :
            Unpack(um.file.vectors_ngrams, um.columns, um.bucket, d, UnpackSeed)
                = um.vectors_ngrams

\* C7: _unpack applied to a matrix _unpack returned gives that matrix back,
\* and a matrix that already has one row per bucket is returned as it is.
C7_UnpackIdempotent ==
    /\ um.stage = "again" => um.vectors_ngrams = um.unpacked
    /\ (um.stage = "upgraded" /\ Len(um.file.vectors_ngrams) = um.bucket)
          => um.vectors_ngrams = um.file.vectors_ngrams

\* C7 witness: a packed matrix with a non-empty map was unpacked, which
\* moved rows, and unpacked once more.
C7_Witness ==
    /\ um.stage = "again"
    /\ Len(um.file.vectors_ngrams) < um.bucket
    /\ um.file.hash2index # <<>>
    /\ \E r \in 1..Len(um.file.vectors_ngrams) :
          um.unpacked[r] # um.file.vectors_ngrams[r]

\* C8: with more packed rows than buckets the upgrade fails: no row is
\* appended or swapped, the map stays, and no store results.
C8_OversizedPackedFails ==
    (um.stage # "loaded" /\ Len(um.file.vectors_ngrams) > um.bucket) =>
        /\ um.stage = "failed"
        /\ um.exc = "AssertionError"
        /\ um.vectors_ngrams = um.file.vectors_ngrams
        /\ um.has_hash2index
        /\ um.hash2index = um.file.hash2index

\* C8 witness: a file with more packed rows than buckets was refused.
C8_Witness ==
    /\ um.stage = "failed"
    /\ Len(um.file.vectors_ngrams) > um.bucket
    /\ um.file.hash2index # <<>>

====
